---- MODULE Spec2Model ----
(***************************************************************************)
(* Client-to-process lifecycle manager and IO-readiness dispatcher of the  *)
(* three tunnel back-ends:                                                 *)
(*   exclusive : src/src/main.rs    (one process per client)               *)
(*   identity  : src/src/shp2p.rs   (one process per client, CUSER/CID)    *)
(*   shared    : src/src/shbcast.rs (one process for all clients)          *)
(* One dispatcher step (step_handle) is one atomic action: message         *)
(* handling, then the liveness monitor, then the readiness notification.   *)
(* Processes exit and produce output as separate environment actions.      *)
(***************************************************************************)
EXTENDS Integers, Sequences, FiniteSets, TLC

VARIABLES policy, running, clients, registered, procs, orphans, out, log, last, sess

vars == <<policy, running, clients, registered, procs, orphans, out, log, last, sess>>

(* ------------------------------ bounds -------------------------------- *)
\* size of the table of the children the service owns
MaxProcs == 2
\* total bytes one process writes to its stdout
MaxOut == 3000

(* ------------------------- program constants -------------------------- *)
\* let mut buf = [0; 2048]
BufSize == 2048
\* fd: -1
NoFd == -1
\* child: None
NoChild == 0
Policies == {"exclusive", "identity", "shared"}
Ids == {7, 12}
\* descriptor numbers a child's stdout pipe can get (0..2 are taken)
FdPool == {3, 4}

(* --------------------------- small helpers ---------------------------- *)
Min(a, b) == IF a < b THEN a ELSE b

EmptyMap == [k \in {} |-> 0]

\* HashMap::insert
MapInsert(m, k, v) == [x \in (DOMAIN m) \cup {k} |-> IF x = k THEN v ELSE m[x]]

\* HashMap::remove
MapRemove(m, k) == [x \in (DOMAIN m) \ {k} |-> m[x]]

\* the two iteration orders a HashMap over Ids can have
Orders == {<<7, 12>>, <<12, 7>>}

\* keys of the map, in the iteration order ord
Keys(m, ord) == SelectSeq(ord, LAMBDA k : k \in DOMAIN m)

\* Option<ClientData> = None (main.rs) / ClientData{fd:-1, child:None, user}
NoProcess(user) == [fd |-> NoFd, child |-> NoChild, user |-> user]

WithProcess(fd, pid, user) == [fd |-> fd, child |-> pid, user |-> user]

\* descriptors the service holds open: the stdout pipes of the Child values
\* owned by the registry (dropping a Child closes its pipes)
OpenFds(m) == {m[k].fd : k \in {x \in DOMAIN m : m[x].child # NoChild}}

(* ------------------------------ messages ------------------------------ *)
NoMsg == [kind |-> "None", client_id |-> 0, data |-> <<>>]

Msg(kind, id, data) == [kind |-> kind, client_id |-> id, data |-> data]

\* Subscribe payloads: e-acute + "\0", an invalid byte + "\0", and the
\* empty payload
Payloads == { <<195, 169, 0>>, <<255, 0>>, <<>> }

DataPayload == <<112>>

(* ------------------------------- UTF-8 -------------------------------- *)
IsCont(b) == b >= 128 /\ b <= 191

\* width of the sequence a lead byte announces, 0 for an invalid lead byte
Utf8Width(b) ==
    IF b < 128 THEN 1
    ELSE IF b >= 194 /\ b <= 223 THEN 2
    ELSE IF b >= 224 /\ b <= 239 THEN 3
    ELSE IF b >= 240 /\ b <= 244 THEN 4
    ELSE 0

RECURSIVE AllCont(_)
AllCont(bs) == bs = <<>> \/ (IsCont(Head(bs)) /\ AllCont(Tail(bs)))

\* second-byte range of a multi-byte sequence (overlong forms, surrogates
\* and code points above U+10FFFF are rejected)
SecondOk(lead, b) ==
    CASE lead = 224 -> b >= 160 /\ b <= 191
      [] lead = 237 -> b >= 128 /\ b <= 159
      [] lead = 240 -> b >= 144 /\ b <= 191
      [] lead = 244 -> b >= 128 /\ b <= 143
      [] OTHER -> IsCont(b)

\* std::str::from_utf8(..).is_ok()
RECURSIVE Utf8Valid(_)
Utf8Valid(bs) ==
    IF bs = <<>> THEN TRUE
    ELSE LET w == Utf8Width(Head(bs)) IN
         /\ w > 0
         /\ Len(bs) >= w
         /\ (w > 1 => SecondOk(Head(bs), bs[2]))
         /\ AllCont(SubSeq(bs, 2, w))
         /\ Utf8Valid(SubSeq(bs, w + 1, Len(bs)))

\* the label taken to be the whole payload, terminator included
LabelBytes_whole(data) == data

\* &msg.data[0..msg.size as usize - 1]
LabelBytes(data) == SubSeq(data, 1, Len(data) - 1)

\* format!("{}", msg.client_id): the decimal digits, as ASCII codes
RECURSIVE ToDecimal(_)
ToDecimal(n) ==
    IF n < 10 THEN <<48 + n>> ELSE Append(ToDecimal(n \div 10), 48 + (n % 10))

(* ------------------- the state a handler works on --------------------- *)
\* One record holds everything step_handle reads and writes, so that the
\* handler is a sequence of state transformers.  err is the Err(..) that the
\* `?` operator propagates: once set, nothing further executes.  fault
\* chooses the kind of fallible call that fails in this step (its first
\* occurrence); hit is the call that did fail.  stuck marks an input the environment
\* cannot produce (a read that would block, a spawn beyond MaxProcs).
Ev(ph, op, id, fd, pid) ==
    [ph |-> ph, op |-> op, id |-> id, fd |-> fd, pid |-> pid,
     envset |-> FALSE, cuser |-> <<>>, cid |-> <<>>]

Emit(s, e) == [s EXCEPT !.log = Append(@, e)]

Fails(s, k) == s.fault = k

Raise(s, k) == [s EXCEPT !.err = TRUE, !.hit = k]

\* per-client record of how far the message sequence Subscribe, Data,
\* Unsubscribe has come for the client (ph), with the processes spawned for
\* it and the teardown calls made for it since that Subscribe; any other
\* message naming the client starts over.  The record is kept only by the
\* specification SpecSeq; under Spec it stays NoSess.
NewSess == [ph |-> "", spawns |-> 0, ev |-> <<>>]

NoSess == [ph |-> "off", spawns |-> 0, ev |-> <<>>]

Tracked(s, id) == id \in Ids /\ s.sess[id].ph \notin {"", "off"}

Note(s, id, what) ==
    IF Tracked(s, id) THEN [s EXCEPT !.sess[id].ev = Append(@, what)] ELSE s

Heard(s, id, kind) ==
    CASE id \notin Ids \/ s.sess[id].ph = "off" -> s
      [] kind = "Subscribe" ->
            [s EXCEPT !.sess[id] = [ph |-> "S", spawns |-> 0, ev |-> <<>>]]
      [] kind = "Data" /\ s.sess[id].ph = "S" -> [s EXCEPT !.sess[id].ph = "SD"]
      [] kind = "Unsubscribe" /\ s.sess[id].ph = "SD" -> [s EXCEPT !.sess[id].ph = "SDU"]
      [] OTHER -> [s EXCEPT !.sess[id] = NewSess]

(* ---------------- calls into the reactor and the OS ------------------- *)
\* topic.register_io(fd, IOInterest::READABLE)?
register_io(s, ph, id, fd) ==
    IF Fails(s, "register") THEN Raise(s, "register")
    ELSE Emit([s EXCEPT !.registered = @ \cup {fd}],
              Ev(ph, IF fd \in s.registered THEN "register_dup" ELSE "register",
                 id, fd, NoChild))

\* topic.unregister_io(fd)?
unregister_io(s, ph, id, fd) ==
    IF Fails(s, "unregister") THEN Raise(s, "unregister")
    ELSE Emit([Note(s, id, IF ph = "mon" THEN "reclaim" ELSE "unregister")
                 EXCEPT !.registered = @ \ {fd}],
              Ev(ph, IF fd \in s.registered THEN "unregister" ELSE "unregister_bad",
                 id, fd, NoChild))

\* topic.write(&msg)?
topic_write(s, m) ==
    IF Fails(s, "topic_write") THEN Raise(s, "topic_write")
    ELSE [s EXCEPT !.out = Append(@, m)]

\* Msg::create(MsgKind::ChannelUnsubscribe, 0, *key, Vec::new())
UnsubscribeNote(id) ==
    [kind |-> "Unsubscribe", client_id |-> id, pid |-> NoChild, from |-> 0, to |-> 0]

\* Msg::create(MsgKind::ChannelData, 0, *k, (&buf[0..n]).to_vec()): the bytes
\* are the ones process pid wrote at offsets from+1..to of its output
DataNote(id, pid, from, to) ==
    [kind |-> "Data", client_id |-> id, pid |-> pid, from |-> from, to |-> to]

\* child.kill(): an error (the child has already exited) is only logged
kill(s, ph, id, pid) ==
    Emit([Note(s, id, "kill") EXCEPT
             !.procs[pid].status = IF @ = "running" THEN "killed" ELSE @],
         Ev(ph, "kill", id, NoFd, pid))

\* child.try_wait()?  is Some(status)
HasExited(s, pid) == s.procs[pid].status # "running"

\* the process table: slot p is free or holds a child of the service
Free == [owner |-> 0, fd |-> NoFd, status |-> "free", wr |-> 0, rd |-> 0]

FreePids(ps) == {p \in DOMAIN ps : ps[p].status = "free"}

\* the pid the next child gets
NextPid(ps) == CHOOSE p \in FreePids(ps) : \A q \in FreePids(ps) : p <= q

\* Command::new(&args[3])...spawn()? and the descriptor of its stdout
Spawn(s, id, fd, envset, cuser, cid) ==
    IF FreePids(s.procs) = {} THEN [s EXCEPT !.stuck = TRUE]
    ELSE IF Fails(s, "spawn") THEN Raise(s, "spawn")
    ELSE Emit([s EXCEPT
                 !.procs[NextPid(s.procs)] =
                     [owner |-> id, fd |-> fd, status |-> "running", wr |-> 0, rd |-> 0],
                 !.sess[id].spawns = IF Tracked(s, id) THEN @ + 1 ELSE @],
              [Ev("msg", "spawn", id, fd, NextPid(s.procs)) EXCEPT
                 !.envset = envset, !.cuser = cuser, !.cid = cid])

\* stdin.write_all(&msg.data)?: fails with EPIPE once the child has exited
WriteStdin(s, id, pid) ==
    IF s.procs[pid].status # "running" THEN Raise(s, "stdin_write")
    ELSE Emit(s, Ev("msg", "write", id, NoFd, pid))

\* stdout.read(&mut buf[..])? then topic.write of the bytes read, tagged id
ReadAndSend(s, id, pid) ==
    LET p == s.procs[pid]
        n == Min(BufSize, p.wr - p.rd)
    IN  IF n = 0 /\ p.status = "running" THEN [s EXCEPT !.stuck = TRUE]
        ELSE topic_write(
               Emit([s EXCEPT !.procs[pid].rd = @ + n],
                    Ev("io", "read", id, p.fd, pid)),
               DataNote(id, pid, p.rd, p.rd + n))

(* ===================== exclusive policy: main.rs ====================== *)
\* unsubscribe_client with the two calls swapped: kill, then unregister
unsubscribe_client_main_kill_first(s, id, e) ==
    IF e.child = NoChild THEN s
    ELSE unregister_io(kill(s, "msg", id, e.child), "msg", id, e.fd)

\* unsubscribe_client(opt, topic): unregister the descriptor, then kill
unsubscribe_client_main(s, id, e) ==
    IF e.child = NoChild THEN s
    ELSE LET s1 == unregister_io(s, "msg", id, e.fd)
         IN  IF s1.err THEN s1
             ELSE kill(s1, "msg", id, e.child)

\* the body of `for (key, value) in clients.iter_mut()` of UnsubscribeAll
RECURSIVE unsubscribe_all_main(_, _)
unsubscribe_all_main(s, keys) ==
    IF s.err \/ keys = <<>> THEN s
    ELSE LET k  == Head(keys)
             s1 == topic_write(s, UnsubscribeNote(k))
             s2 == IF s1.err THEN s1 ELSE unsubscribe_client_main(s1, k, s.clients[k])
         IN  unsubscribe_all_main(s2, Tail(keys))

\* MsgKind::ChannelData of main.rs
data_main(s, msg, newfd) ==
    LET id == msg.client_id IN
    IF id \notin DOMAIN s.clients THEN Raise(s, "not_in_list")
    ELSE IF s.clients[id].child = NoChild
    THEN LET s1 == Spawn(s, id, newfd, FALSE, <<>>, <<>>)
             s2 == IF s1.err \/ s1.stuck THEN s1 ELSE register_io(s1, "msg", id, newfd)
             s3 == IF s2.err \/ s2.stuck THEN s2
                   ELSE [s2 EXCEPT !.clients =
                            MapInsert(@, id, WithProcess(newfd, NextPid(s.procs), <<>>))]
         IN  IF s3.err \/ s3.stuck THEN s3 ELSE WriteStdin(s3, id, s3.clients[id].child)
    ELSE WriteStdin(s, id, s.clients[id].child)

\* message handling that spawns the process on Subscribe already
message_main_eager(s, msg, ord, newfd) ==
    IF msg.kind = "Subscribe"
    THEN data_main([s EXCEPT !.clients = MapInsert(@, msg.client_id, NoProcess(<<>>))],
                   msg, newfd)
    ELSE IF msg.kind = "Data" THEN data_main(s, msg, newfd)
    ELSE s

\* message handling in which an Unsubscribe for an absent id is an error
message_main_strict(s, msg, ord, newfd) ==
    IF msg.kind = "Unsubscribe" /\ msg.client_id \notin DOMAIN s.clients
    THEN Raise(s, "not_in_list")
    ELSE IF msg.kind = "Unsubscribe"
    THEN unsubscribe_client_main(
             [s EXCEPT !.clients = MapRemove(@, msg.client_id)],
             msg.client_id, s.clients[msg.client_id])
    ELSE IF msg.kind = "Subscribe"
    THEN [s EXCEPT !.clients = MapInsert(@, msg.client_id, NoProcess(<<>>))]
    ELSE IF msg.kind = "Data" THEN data_main(s, msg, newfd)
    ELSE s

\* `if let Some(msg) = evt.msg { match msg.kind {..} }` of main.rs
message_main(s, msg, ord, newfd) ==
    LET id == msg.client_id IN
    CASE msg.kind = "Subscribe" ->
            [s EXCEPT !.clients = MapInsert(@, id, NoProcess(<<>>))]
      [] msg.kind = "Unsubscribe" ->
            IF id \notin DOMAIN s.clients
            THEN Emit(s, Ev("msg", "warn_not_in_list", id, NoFd, NoChild))
            ELSE unsubscribe_client_main(
                     [s EXCEPT !.clients = MapRemove(@, id)], id, s.clients[id])
      [] msg.kind = "UnsubscribeAll" ->
            LET s1 == unsubscribe_all_main(s, Keys(s.clients, ord))
            IN  IF s1.err THEN s1 ELSE [s1 EXCEPT !.clients = EmptyMap]
      [] msg.kind = "Data" -> data_main(s, msg, newfd)
      [] OTHER -> s

\* first loop of monitor_clients of main.rs: the keys whose child has exited
RECURSIVE monitor_scan_main(_, _, _)
monitor_scan_main(s, keys, list) ==
    IF s.err \/ keys = <<>> THEN [s |-> s, list |-> list]
    ELSE LET k == Head(keys)
             e == s.clients[k]
         IN  IF e.child = NoChild THEN monitor_scan_main(s, Tail(keys), list)
             ELSE IF ~HasExited(s, e.child)
                  THEN monitor_scan_main(s, Tail(keys), list)
             ELSE LET s1 == unregister_io(s, "mon", k, e.fd)
                  IN  IF s1.err THEN [s |-> s1, list |-> list]
                      ELSE monitor_scan_main(s1, Tail(keys), Append(list, k))

\* monitor_clients of main.rs
monitor_clients_main(s, ord) ==
    LET r == monitor_scan_main(s, Keys(s.clients, ord), <<>>)
        gone == {r.list[i] : i \in DOMAIN r.list}
    IN  IF r.s.err THEN r.s
        ELSE [r.s EXCEPT !.clients =
                 [k \in DOMAIN @ |-> IF k \in gone THEN NoProcess(<<>>) ELSE @[k]]]

\* the readable branch reading from every bound entry, whatever descriptor
\* the notification names
RECURSIVE readable_main_any_fd(_, _, _)
readable_main_any_fd(s, keys, fd) ==
    IF s.err \/ s.stuck \/ keys = <<>> THEN s
    ELSE LET e == s.clients[Head(keys)]
         IN  IF e.child # NoChild
             THEN readable_main_any_fd(ReadAndSend(s, Head(keys), e.child), Tail(keys), fd)
             ELSE readable_main_any_fd(s, Tail(keys), fd)

\* the readable branch of step_handle of main.rs
RECURSIVE readable_main(_, _, _)
readable_main(s, keys, fd) ==
    IF s.err \/ s.stuck \/ keys = <<>> THEN s
    ELSE LET e == s.clients[Head(keys)]
         IN  IF e.child # NoChild /\ e.fd = fd
             THEN readable_main(ReadAndSend(s, Head(keys), e.child), Tail(keys), fd)
             ELSE readable_main(s, Tail(keys), fd)

\* what step_handle remembers of the state between message handling and
\* the liveness monitor
Mid(s) == [clients |-> s.clients, registered |-> s.registered, err |-> s.err,
           nlog |-> Len(s.log), nout |-> Len(s.out)]

\* step_handle with the readiness notification handled before the liveness
\* monitor
step_handle_main_read_first(s, evt, ord, newfd) ==
    LET s1 == IF evt.msg.kind = "None" THEN s ELSE message_main(s, evt.msg, ord, newfd)
        s2 == IF s1.err \/ evt.event = "None" \/ evt.fd = NoFd \/ evt.event # "readable"
              THEN s1
              ELSE readable_main(s1, Keys(s1.clients, ord), evt.fd)
        s3 == IF s2.err \/ s2.stuck THEN s2 ELSE monitor_clients_main(s2, ord)
    IN  [s3 EXCEPT !.mid = Mid(s1)]

\* step_handle of main.rs
step_handle_main(s, evt, ord, newfd) ==
    LET s1 == IF evt.msg.kind = "None" THEN s ELSE message_main(s, evt.msg, ord, newfd)
        s2 == IF s1.err THEN s1 ELSE monitor_clients_main(s1, ord)
        s3 == IF s2.err \/ evt.event = "None" \/ evt.fd = NoFd \/ evt.event # "readable"
              THEN s2
              ELSE readable_main(s2, Keys(s2.clients, ord), evt.fd)
    IN  [s3 EXCEPT !.mid = Mid(s1)]

(* ====================== identity policy: shp2p.rs ===================== *)
\* unsubscribe_client(client_data, topic): unregister the descriptor, then kill
unsubscribe_client_shp2p(s, id, e) ==
    IF e.child = NoChild THEN s
    ELSE LET s1 == unregister_io(s, "msg", id, e.fd)
         IN  IF s1.err THEN s1
             ELSE kill(s1, "msg", id, e.child)

\* the body of `for (key, value) in clients.iter_mut()` of UnsubscribeAll
RECURSIVE unsubscribe_all_shp2p(_, _)
unsubscribe_all_shp2p(s, keys) ==
    IF s.err \/ keys = <<>> THEN s
    ELSE LET k  == Head(keys)
             s1 == topic_write(s, UnsubscribeNote(k))
             s2 == IF s1.err THEN s1 ELSE unsubscribe_client_shp2p(s1, k, s.clients[k])
         IN  unsubscribe_all_shp2p(s2, Tail(keys))

\* Subscribe that inserts the entry before it validates the label
subscribe_shp2p_insert_first(s, msg) ==
    IF Len(msg.data) = 0 THEN [Raise(s, "panic") EXCEPT !.panic = TRUE]
    ELSE LET s1 == [s EXCEPT !.clients =
                       MapInsert(@, msg.client_id, NoProcess(LabelBytes(msg.data)))]
         IN  IF ~Utf8Valid(LabelBytes(msg.data)) THEN Raise(s1, "from_utf8") ELSE s1

\* MsgKind::ChannelSubscribe of shp2p.rs: `msg.size as usize - 1` underflows
\* for an empty payload (a panic in every build: the subtraction overflows or
\* the slice end is out of range); from_utf8 rejects a malformed label
subscribe_shp2p(s, msg) ==
    IF Len(msg.data) = 0 THEN [Raise(s, "panic") EXCEPT !.panic = TRUE]
    ELSE IF ~Utf8Valid(LabelBytes(msg.data)) THEN Raise(s, "from_utf8")
    ELSE [s EXCEPT !.clients =
             MapInsert(@, msg.client_id, NoProcess(LabelBytes(msg.data)))]

\* MsgKind::ChannelData of shp2p.rs
data_shp2p(s, msg, newfd) ==
    LET id == msg.client_id IN
    IF id \notin DOMAIN s.clients
    THEN Emit(s, Ev("msg", "warn_not_in_list", id, NoFd, NoChild))
    ELSE IF s.clients[id].child = NoChild
    THEN LET s1 == Spawn(s, id, newfd, TRUE, s.clients[id].user, ToDecimal(id))
             s2 == IF s1.err \/ s1.stuck THEN s1 ELSE register_io(s1, "msg", id, newfd)
             s3 == IF s2.err \/ s2.stuck THEN s2
                   ELSE [s2 EXCEPT !.clients[id].child = NextPid(s.procs),
                                   !.clients[id].fd = newfd]
         IN  IF s3.err \/ s3.stuck THEN s3 ELSE WriteStdin(s3, id, s3.clients[id].child)
    ELSE WriteStdin(s, id, s.clients[id].child)

\* `if let Some(msg) = evt.msg { match msg.kind {..} }` of shp2p.rs
message_shp2p(s, msg, ord, newfd) ==
    LET id == msg.client_id IN
    CASE msg.kind = "Subscribe" -> subscribe_shp2p(s, msg)
      [] msg.kind = "Unsubscribe" ->
            IF id \notin DOMAIN s.clients
            THEN Emit(s, Ev("msg", "warn_not_in_list", id, NoFd, NoChild))
            ELSE unsubscribe_client_shp2p(
                     [s EXCEPT !.clients = MapRemove(@, id)], id, s.clients[id])
      [] msg.kind = "UnsubscribeAll" ->
            LET s1 == unsubscribe_all_shp2p(s, Keys(s.clients, ord))
            IN  IF s1.err THEN s1 ELSE [s1 EXCEPT !.clients = EmptyMap]
      [] msg.kind = "Data" -> data_shp2p(s, msg, newfd)
      [] OTHER -> s

\* monitor_clients of shp2p.rs: exited children are reclaimed in place
RECURSIVE monitor_clients_shp2p(_, _)
monitor_clients_shp2p(s, keys) ==
    IF s.err \/ keys = <<>> THEN s
    ELSE LET k == Head(keys)
             e == s.clients[k]
         IN  IF e.child = NoChild THEN monitor_clients_shp2p(s, Tail(keys))
             ELSE IF ~HasExited(s, e.child)
                  THEN monitor_clients_shp2p(s, Tail(keys))
             ELSE LET s1 == unregister_io(s, "mon", k, e.fd)
                  IN  IF s1.err THEN s1
                      ELSE monitor_clients_shp2p(
                               [s1 EXCEPT
                                   !.clients[k].fd = NoFd,
                                   !.clients[k].child = NoChild],
                               Tail(keys))

\* the readable branch of shp2p.rs without the comparison of descriptors
RECURSIVE readable_shp2p_any_fd(_, _, _)
readable_shp2p_any_fd(s, keys, fd) ==
    IF s.err \/ s.stuck \/ keys = <<>> THEN s
    ELSE LET e == s.clients[Head(keys)]
         IN  IF e.child # NoChild
             THEN readable_shp2p_any_fd(ReadAndSend(s, Head(keys), e.child), Tail(keys), fd)
             ELSE readable_shp2p_any_fd(s, Tail(keys), fd)

\* the readable branch of step_handle of shp2p.rs
RECURSIVE readable_shp2p(_, _, _)
readable_shp2p(s, keys, fd) ==
    IF s.err \/ s.stuck \/ keys = <<>> THEN s
    ELSE LET e == s.clients[Head(keys)]
         IN  IF e.fd = fd /\ e.child # NoChild
             THEN readable_shp2p(ReadAndSend(s, Head(keys), e.child), Tail(keys), fd)
             ELSE readable_shp2p(s, Tail(keys), fd)

\* step_handle of shp2p.rs
step_handle_shp2p(s, evt, ord, newfd) ==
    LET s1 == IF evt.msg.kind = "None" THEN s ELSE message_shp2p(s, evt.msg, ord, newfd)
        s2 == IF s1.err THEN s1 ELSE monitor_clients_shp2p(s1, Keys(s1.clients, ord))
        s3 == IF s2.err \/ evt.event = "None" \/ evt.fd = NoFd \/ evt.event # "readable"
              THEN s2
              ELSE readable_shp2p(s2, Keys(s2.clients, ord), evt.fd)
    IN  [s3 EXCEPT !.mid = Mid(s1)]

(* ======================= shared policy: shbcast.rs ==================== *)
\* the one process main() spawns before the loop
SharedPid == 1

\* MsgKind::ChannelSubscribe of shbcast.rs
subscribe_shbcast(s, msg) ==
    IF Len(msg.data) = 0 THEN [Raise(s, "panic") EXCEPT !.panic = TRUE]
    ELSE IF ~Utf8Valid(LabelBytes(msg.data)) THEN Raise(s, "from_utf8")
    ELSE [s EXCEPT !.clients =
             MapInsert(@, msg.client_id, NoProcess(LabelBytes(msg.data)))]

\* the body of `for (key, _) in clients.iter_mut()` of UnsubscribeAll
RECURSIVE unsubscribe_all_shbcast(_, _)
unsubscribe_all_shbcast(s, keys) ==
    IF s.err \/ keys = <<>> THEN s
    ELSE unsubscribe_all_shbcast(topic_write(s, UnsubscribeNote(Head(keys))), Tail(keys))

\* `if let Some(msg) = evt.msg { match msg.kind {..} }` of shbcast.rs
message_shbcast(s, msg, ord) ==
    LET id == msg.client_id IN
    CASE msg.kind = "Subscribe" -> subscribe_shbcast(s, msg)
      [] msg.kind = "Unsubscribe" ->
            IF id \notin DOMAIN s.clients
            THEN Emit(s, Ev("msg", "warn_not_in_list", id, NoFd, NoChild))
            ELSE [s EXCEPT !.clients = MapRemove(@, id)]
      [] msg.kind = "UnsubscribeAll" ->
            LET s1 == unsubscribe_all_shbcast(s, Keys(s.clients, ord))
            IN  IF s1.err THEN s1 ELSE [s1 EXCEPT !.clients = EmptyMap]
      [] msg.kind = "Data" -> WriteStdin(s, id, SharedPid)
      [] OTHER -> s

\* `for (key, _) in clients.iter()` of the readable branch of shbcast.rs:
\* one outbound Data message per key, all carrying the bytes of the one read
RECURSIVE fanout_shbcast(_, _, _, _)
fanout_shbcast(s, keys, from, to) ==
    IF s.err \/ keys = <<>> THEN s
    ELSE fanout_shbcast(topic_write(s, DataNote(Head(keys), SharedPid, from, to)),
                        Tail(keys), from, to)

\* the readable branch sending the bytes read to the first client only
readable_shbcast_first_only(s, ord) ==
    LET p == s.procs[SharedPid]
        n == Min(BufSize, p.wr - p.rd)
    IN  IF n = 0 /\ p.status = "running" THEN [s EXCEPT !.stuck = TRUE]
        ELSE fanout_shbcast(
                 Emit([s EXCEPT !.procs[SharedPid].rd = @ + n],
                      Ev("io", "read", 0, p.fd, SharedPid)),
                 SubSeq(Keys(s.clients, ord), 1, Min(1, Len(Keys(s.clients, ord)))),
                 p.rd, p.rd + n)

\* the readable branch of step_handle of shbcast.rs
readable_shbcast(s, ord) ==
    LET p == s.procs[SharedPid]
        n == Min(BufSize, p.wr - p.rd)
    IN  IF n = 0 /\ p.status = "running" THEN [s EXCEPT !.stuck = TRUE]
        ELSE fanout_shbcast(
                 Emit([s EXCEPT !.procs[SharedPid].rd = @ + n],
                      Ev("io", "read", 0, p.fd, SharedPid)),
                 Keys(s.clients, ord), p.rd, p.rd + n)

\* step_handle of shbcast.rs: there is no liveness monitor
step_handle_shbcast(s, evt, ord) ==
    LET s1 == IF evt.msg.kind = "None" THEN s ELSE message_shbcast(s, evt.msg, ord)
        s3 == IF s1.err \/ evt.event = "None" \/ evt.fd = NoFd \/ evt.event # "readable"
              THEN s1
              ELSE readable_shbcast(s1, ord)
    IN  [s3 EXCEPT !.mid = Mid(s1)]

(* ======================= the reactor and main() ======================= *)
\* the inbound messages of one step (evt.msg); the exclusive policy never
\* looks at a Subscribe payload
SubscribePayloads == IF policy = "exclusive" THEN {<<97, 0>>} ELSE Payloads

Msgs ==
    {NoMsg, Msg("UnsubscribeAll", 0, <<>>)}
    \cup {Msg("Subscribe", id, d) : id \in Ids, d \in SubscribePayloads}
    \cup {Msg("Unsubscribe", id, <<>>) : id \in Ids}
    \cup {Msg("Other", 7, <<>>)}
    \cup {Msg("Data", id, DataPayload) : id \in Ids}

\* the readiness notification of one step (evt.event, evt.fd)
Notifications ==
    {[event |-> "None", fd |-> NoFd]}
    \cup {[event |-> "readable", fd |-> f] : f \in FdPool}

\* the kind of fallible call that fails in this step (if any) and the
\* readiness notification of the step; a step with a failing call carries no
\* notification
Inputs ==
    {[fault |-> "none", n |-> n] : n \in Notifications}
    \cup {[fault |-> f, n |-> [event |-> "None", fd |-> NoFd]] :
             f \in {"spawn", "register", "unregister", "topic_write"}}

\* the descriptor number the OS gives the next child's stdout: any number
\* that is not open in the service
FreeFds == IF FdPool \ OpenFds(clients) = {} THEN {NoFd} ELSE FdPool \ OpenFds(clients)

\* the descriptor only matters to a message that can spawn
FdChoices(msg) == IF msg.kind = "Data" THEN FreeFds ELSE {NoFd}

\* the iteration order of the map shows only when one loop acts on two
\* entries: UnsubscribeAll, the fan-out of the shared policy, and the monitor
\* when both children have exited
OrderChoices(msg) ==
    IF /\ DOMAIN clients = Ids
       /\ \/ msg.kind = "UnsubscribeAll"
          \/ policy = "shared"
          \/ \A k \in Ids : clients[k].child # NoChild
                            /\ procs[clients[k].child].status # "running"
    THEN Orders ELSE {<<7, 12>>}

Begin(f, msg) ==
    LET s == [clients |-> clients, registered |-> registered, procs |-> procs,
              out |-> <<>>, log |-> <<>>, sess |-> sess,
              err |-> FALSE, panic |-> FALSE, hit |-> "none",
              fault |-> f, stuck |-> FALSE,
              mid |-> [clients |-> clients, registered |-> registered,
                       err |-> FALSE, nlog |-> 0, nout |-> 0]]
    IN  CASE msg.kind = "None" -> s
          [] msg.kind = "UnsubscribeAll" ->
                [s EXCEPT !.sess = [i \in Ids |-> IF @[i].ph = "off" THEN @[i] ELSE NewSess]]
          [] OTHER -> Heard(s, msg.client_id, msg.kind)

\* Dropping a Child closes its pipes and neither kills nor waits for the
\* process: a child that no registry entry owns any more leaves the table.
\* If it is still running it lives on as an orphan.
Owned(pol, m, p) == pol = "shared" \/ \E k \in DOMAIN m : m[k].child = p

DropUnowned(pol, m, ps) ==
    [p \in DOMAIN ps |-> IF Owned(pol, m, p) THEN ps[p] ELSE Free]

\* the client ids for which a dropped child is still running
Orphaned(pol, m, ps) ==
    {ps[p].owner : p \in {q \in DOMAIN ps : ~Owned(pol, m, q) /\ ps[q].status = "running"}}

\* `if let Err(error) = topic.step() { running = false; }`
Commit(s, msg, n) ==
    /\ ~s.stuck
    /\ clients' = s.clients
    /\ registered' = s.registered
    /\ procs' = DropUnowned(policy, s.clients, s.procs)
    /\ orphans' = orphans \cup Orphaned(policy, s.clients, s.procs)
    /\ out' = s.out
    /\ log' = s.log
    /\ sess' = s.sess
    /\ running' = ~s.err
    /\ last' = [msg |-> msg, event |-> n.event, fd |-> n.fd, hit |-> s.hit,
                panic |-> s.panic, mid |-> s.mid]
    /\ UNCHANGED policy

Evt(msg, n) == [msg |-> msg, event |-> n.event, fd |-> n.fd]

StepMain ==
    /\ policy = "exclusive" /\ running
    /\ \E msg \in Msgs, i \in Inputs :
         \E ord \in OrderChoices(msg), newfd \in FdChoices(msg) :
            Commit(step_handle_main(Begin(i.fault, msg), Evt(msg, i.n), ord, newfd),
                   msg, i.n)

StepShp2p ==
    /\ policy = "identity" /\ running
    /\ \E msg \in Msgs, i \in Inputs :
         \E ord \in OrderChoices(msg), newfd \in FdChoices(msg) :
            Commit(step_handle_shp2p(Begin(i.fault, msg), Evt(msg, i.n), ord, newfd),
                   msg, i.n)

StepShbcast ==
    /\ policy = "shared" /\ running
    /\ \E msg \in Msgs, i \in Inputs :
         \E ord \in OrderChoices(msg) :
            Commit(step_handle_shbcast(Begin(i.fault, msg), Evt(msg, i.n), ord),
                   msg, i.n)

\* last, log and out describe the dispatcher step that led to the current
\* state; they are blank in the initial state and after a step of a child
NoStep ==
    [msg |-> NoMsg, event |-> "None", fd |-> NoFd, hit |-> "idle", panic |-> FALSE,
     mid |-> [clients |-> EmptyMap, registered |-> {}, err |-> FALSE,
              nlog |-> 0, nout |-> 0]]

Blank == last' = NoStep /\ log' = <<>> /\ out' = <<>>

\* a child terminates on its own
ProcExit ==
    /\ running
    /\ \E p \in DOMAIN procs :
         /\ procs[p].status = "running"
         /\ procs' = [procs EXCEPT ![p].status = "exited"]
    /\ Blank
    /\ UNCHANGED <<policy, running, clients, registered, orphans, sess>>

\* the orphans of a client terminate on their own
OrphanExit ==
    /\ running
    /\ \E id \in orphans : orphans' = orphans \ {id}
    /\ Blank
    /\ UNCHANGED <<policy, running, clients, registered, procs, sess>>

\* a running child writes a burst of MaxOut bytes to its stdout
ProcOutput ==
    /\ running
    /\ \E p \in DOMAIN procs :
         /\ procs[p].status = "running"
         /\ procs[p].wr = 0
         /\ procs' = [procs EXCEPT ![p].wr = MaxOut]
    /\ Blank
    /\ UNCHANGED <<policy, running, clients, registered, orphans, sess>>

\* main(): the registry starts empty; shbcast.rs spawns its process and
\* registers its descriptor before the loop
Start(tracking) ==
    /\ policy \in Policies
    /\ running = TRUE
    /\ clients = EmptyMap
    /\ orphans = {}
    /\ out = <<>>
    /\ log = <<>>
    /\ sess = [i \in Ids |-> IF tracking THEN NewSess ELSE NoSess]
    /\ last = NoStep
    /\ IF policy = "shared"
       THEN /\ procs = [p \in 1..MaxProcs |->
                          IF p = SharedPid
                          THEN [owner |-> 0, fd |-> 3, status |-> "running",
                                wr |-> 0, rd |-> 0]
                          ELSE Free]
            /\ registered = {3}
       ELSE procs = [p \in 1..MaxProcs |-> Free] /\ registered = {}

Init == Start(FALSE)

Next == StepMain \/ StepShp2p \/ StepShbcast \/ ProcExit \/ OrphanExit \/ ProcOutput

Spec == Init /\ [][Next]_vars

\* the exclusive and identity policies, with the per-client record of the
\* message sequence Subscribe, Data, Unsubscribe kept; the children write
\* nothing to their stdout
InitSeq == Start(TRUE) /\ policy # "shared"

NextSeq == StepMain \/ StepShp2p \/ ProcExit \/ OrphanExit

SpecSeq == InitSeq /\ [][NextSeq]_vars

(* ============================== claims ================================ *)
\* the events of the last dispatcher step
Events == {log[i] : i \in DOMAIN log}

\* the events of the message-handling phase of the last step
MsgEvents == {e \in Events : e.ph = "msg"}

\* the outbound Data messages of the last step
DataOut == {i \in DOMAIN out : out[i].kind = "Data"}

\* the last transition was a dispatcher step that met no failing call of the
\* reactor or the OS
StepDone == last.hit = "none"

\* the value of a sequence of ASCII decimal digits
RECURSIVE FromDecimal(_)
FromDecimal(ds) ==
    IF ds = <<>> THEN 0
    ELSE 10 * FromDecimal(SubSeq(ds, 1, Len(ds) - 1)) + (ds[Len(ds)] - 48)

C2_RegisteredExactlyOnce ==
    (policy # "shared" /\ running) =>
        /\ registered = OpenFds(clients)
        /\ \A e \in Events : e.op # "unregister_bad"

(* ---- C3 ---- *)
\* C3: in the exclusive and identity policies every running spawned process
\* is the binding of a current registry entry: no child runs on after its
\* entry was removed or replaced.
C3_NoProcessOutlivesEntry ==
    (policy # "shared" /\ running) =>
        /\ orphans = {}
        /\ \A p \in DOMAIN procs :
              procs[p].status # "free" =>
                 \E k \in DOMAIN clients : clients[k].child = p /\ clients[k].fd = procs[p].fd

(* ---- C4 ---- *)
\* C4: in the exclusive and identity policies no process is spawned for a
\* client id while a process spawned earlier for that id is still running,
\* and no two live children belong to one id; in the shared policy the one
\* process of startup is the only one there ever is.
C4_OneLiveProcessPerClient ==
    /\ (policy # "shared" /\ running) =>
          /\ \A e \in Events : e.op = "spawn" => e.id \notin orphans
          /\ \A p, q \in DOMAIN procs :
                (p # q /\ procs[p].status = "running" /\ procs[q].status = "running")
                   => procs[p].owner # procs[q].owner
    /\ policy = "shared" =>
          /\ procs[SharedPid].status # "free"
          /\ \A p \in DOMAIN procs : p # SharedPid => procs[p].status = "free"
          /\ orphans = {}
          /\ \A e \in Events : e.op # "spawn"

(* ---- C5 ---- *)
\* C5: in the exclusive and identity policies, when the child bound to a
\* subscribed client has exited, the next dispatcher step (unless it
\* unsubscribes the client or meets a failing call of the reactor or the OS)
\* unregisters the descriptor and leaves the entry in NoProcess, still
\* subscribed, with the service running; and a Data message for an entry in
\* NoProcess spawns a process and registers its descriptor.
C5_ExitReclaimedByNextStep ==
    [][\A id \in Ids :
         /\ ( /\ policy # "shared"
              /\ last'.hit \in {"none", "stdin_write", "not_in_list", "from_utf8", "panic"}
              /\ ~(last'.msg.kind = "Unsubscribe" /\ last'.msg.client_id = id)
              /\ last'.msg.kind # "UnsubscribeAll"
              /\ id \in DOMAIN clients
              /\ clients[id].child # NoChild
              /\ procs[clients[id].child].status = "exited" )
            => /\ running'
               /\ clients[id].fd \notin registered'
               /\ id \in DOMAIN clients'
               /\ clients'[id].child = NoChild
         /\ ( /\ policy # "shared"
              /\ last'.hit = "none"
              /\ last'.msg.kind = "Data" /\ last'.msg.client_id = id
              /\ id \in DOMAIN clients
              /\ clients[id].child = NoChild )
            => /\ \E i \in DOMAIN log' : log'[i].op = "spawn" /\ log'[i].id = id
               /\ clients'[id].child # NoChild
               /\ clients'[id].fd \in registered'
      ]_vars

(* ---- C6 ---- *)
\* C6: after an UnsubscribeAll was handled (exclusive and identity policies)
\* the registry is empty, no descriptor is registered any more, and no
\* descriptor was unregistered twice or without being registered.
C6_UnsubscribeAllReleasesAll ==
    (policy # "shared" /\ StepDone /\ last.msg.kind = "UnsubscribeAll") =>
        /\ clients = EmptyMap
        /\ registered = {}
        /\ \A e \in Events : e.op # "unregister_bad"
        /\ \A i, j \in DOMAIN log :
              (i # j /\ log[i].op = "unregister" /\ log[j].op = "unregister")
                 => log[i].fd # log[j].fd

(* ---- C7 ---- *)
\* C7: in the shared policy one read of the shared process's output yields
\* exactly one outbound Data message for every client id in the registry as
\* it is after the step's message was handled, tagged with that id, and none
\* for any other id; all of them carry the bytes of that one read, which are
\* the next at most 2048 unread bytes of the process's output.
C7_SharedFanOut ==
    (policy = "shared" /\ StepDone /\ \E e \in Events : e.op = "read") =>
        /\ \A id \in DOMAIN last.mid.clients :
              Cardinality({i \in DataOut : out[i].client_id = id}) = 1
        /\ \A i \in DataOut :
              /\ out[i].client_id \in DOMAIN last.mid.clients
              /\ out[i].pid = SharedPid
              /\ out[i].to = procs[SharedPid].rd
              /\ out[i].to - out[i].from <= 2048
              /\ out[i].to - out[i].from =
                    Min(2048, procs[SharedPid].wr - out[i].from)
        /\ \A i, j \in DataOut : out[i].from = out[j].from /\ out[i].to = out[j].to

C7_Witness ==
    /\ policy = "shared" /\ StepDone
    /\ \E e \in Events : e.op = "read"
    /\ DOMAIN last.mid.clients = Ids
    /\ Cardinality(DataOut) = 2
    /\ \A i \in DataOut : out[i].from = 0 /\ out[i].to = 2048

(* ---- C8 ---- *)
\* C8: a process is spawned only by the exclusive and identity dispatchers,
\* only while they handle a Data message, and only for the client id of that
\* message when its entry is in NoProcess; nothing else ever adds a process.
C8_SpawnOnlyOnData ==
    [][ ( \/ \E i \in DOMAIN log' : log'[i].op = "spawn"
          \/ \E p \in DOMAIN procs : procs[p].status = "free" /\ procs'[p].status # "free" )
        => /\ policy # "shared"
           /\ last'.msg.kind = "Data"
           /\ last'.msg.client_id \in DOMAIN clients
           /\ clients[last'.msg.client_id].child = NoChild
           /\ \A i \in DOMAIN log' :
                 log'[i].op = "spawn" =>
                    log'[i].ph = "msg" /\ log'[i].id = last'.msg.client_id
           /\ Cardinality({i \in DOMAIN log' : log'[i].op = "spawn"}) = 1
      ]_vars

C8_Witness ==
    /\ StepDone
    /\ last.msg.kind = "Data"
    /\ \E e \in Events : e.op = "spawn" /\ e.id = last.msg.client_id
    /\ clients[last.msg.client_id].child # NoChild

(* ---- C9 ---- *)
\* C9: in the identity policy a Subscribe stores as label its payload without
\* the last byte, and a process spawned for a client gets CUSER equal to the
\* label stored for that client and CID equal to the decimal form of the
\* client id of the Data message.
C9_LabelAndEnvironment ==
    policy = "identity" =>
        /\ (StepDone /\ last.msg.kind = "Subscribe") =>
              LET u == clients[last.msg.client_id].user
                  d == last.msg.data
              IN  /\ Len(u) = Len(d) - 1
                  /\ \A i \in 1..Len(u) : u[i] = d[i]
        /\ \A e \in Events :
              e.op = "spawn" =>
                 /\ e.envset
                 /\ e.id = last.msg.client_id
                 /\ e.cuser = clients[e.id].user
                 /\ e.cid # <<>>
                 /\ \A i \in DOMAIN e.cid : e.cid[i] \in 48..57
                 /\ (Len(e.cid) > 1 => e.cid[1] # 48)
                 /\ FromDecimal(e.cid) = last.msg.client_id

C9_Witness ==
    /\ policy = "identity" /\ StepDone
    /\ last.msg.kind = "Data" /\ last.msg.client_id = 12
    /\ \E e \in Events :
          e.op = "spawn" /\ e.cuser = <<195, 169>> /\ e.cid = <<49, 50>>

(* ---- C10 ---- *)
\* C10: in every policy, handling an Unsubscribe for a client id that is not
\* in the registry changes neither the registry nor the registered
\* descriptors, makes no kill and no unregister, and raises no error.
C10_UnknownUnsubscribeIsNoOp ==
    [][ ( /\ last'.hit # "idle"
          /\ last'.msg.kind = "Unsubscribe"
          /\ last'.msg.client_id \notin DOMAIN clients )
        => /\ last'.mid.clients = clients
           /\ last'.mid.registered = registered
           /\ ~last'.mid.err
           /\ last'.mid.nout = 0
           /\ \A i \in DOMAIN log' :
                 log'[i].ph = "msg" => log'[i].op = "warn_not_in_list"
      ]_vars

C10_Witness ==
    /\ StepDone
    /\ last.msg.kind = "Unsubscribe" /\ last.msg.client_id = 12
    /\ 12 \notin DOMAIN last.mid.clients
    /\ 7 \in DOMAIN last.mid.clients /\ last.mid.clients[7].child # NoChild
    /\ \E e \in MsgEvents : e.op = "warn_not_in_list"

(* ---- C11 ---- *)
\* C11: when a Data message is forwarded to a bound process that has exited
\* and whose exit the monitor has not yet seen, the failed write does not
\* abort the step: message handling returns no error, the service keeps
\* running, and (exclusive and identity policies) the monitor of that step
\* reclaims the exited process.
C11_WriteFailureRecoverable ==
    [][ ( /\ last'.hit \in {"none", "stdin_write"}
          /\ last'.msg.kind = "Data"
          /\ \/ policy = "shared" /\ procs[SharedPid].status = "exited"
             \/ /\ policy # "shared"
                /\ last'.msg.client_id \in DOMAIN clients
                /\ clients[last'.msg.client_id].child # NoChild
                /\ procs[clients[last'.msg.client_id].child].status = "exited" )
        => /\ ~last'.mid.err
           /\ running'
           /\ policy # "shared" =>
                 /\ last'.msg.client_id \in DOMAIN clients'
                 /\ clients'[last'.msg.client_id].child = NoChild
      ]_vars

(* ---- C12 ---- *)
\* C12: in the exclusive and identity policies a Data message for a client
\* id that is not in the registry spawns nothing, leaves the registry as it
\* was and returns no error, so that the service keeps running.
C12_UnknownDataDropped ==
    [][ ( /\ policy # "shared"
          /\ last'.hit \in {"none", "not_in_list"}
          /\ last'.msg.kind = "Data"
          /\ last'.msg.client_id \notin DOMAIN clients )
        => /\ ~last'.mid.err
           /\ running'
           /\ last'.mid.clients = clients
           /\ \A i \in DOMAIN log' : log'[i].op # "spawn"
      ]_vars

(* ---- C13 ---- *)
\* C13: in the shared policy the bytes of a Data message from a client id
\* that is not in the registry are not written to the shared process.
C13_SharedUnknownDataDropped ==
    [][ ( /\ policy = "shared"
          /\ last'.hit # "idle"
          /\ last'.msg.kind = "Data"
          /\ last'.msg.client_id \notin DOMAIN clients )
        => \A i \in DOMAIN log' : log'[i].op # "write"
      ]_vars

(* ---- C14 ---- *)
\* rank of the three phases of a dispatcher step
PhaseRank(ph) == CASE ph = "msg" -> 1 [] ph = "mon" -> 2 [] OTHER -> 3

\* C14: in the exclusive and identity policies the calls of one dispatcher
\* step come in the order message handling, liveness monitor, readiness
\* handling, and no read is made from a binding that the same step reclaimed
\* after its exit or tore down by Unsubscribe or UnsubscribeAll.
C14_MessageMonitorReadiness ==
    policy # "shared" =>
        /\ \A i, j \in DOMAIN log :
              i < j => PhaseRank(log[i].ph) <= PhaseRank(log[j].ph)
        /\ \A r \in Events :
              r.op = "read" =>
                 /\ r.ph = "io"
                 /\ \A e \in Events :
                       e.op \in {"unregister", "unregister_bad", "kill"} =>
                          /\ e.id # r.id
                          /\ e.op = "kill" => e.pid # r.pid
                          /\ e.op # "kill" => e.fd # r.fd

C14_Witness ==
    /\ policy # "shared" /\ StepDone
    /\ last.event = "readable"
    /\ \E e \in Events : e.ph = "mon" /\ e.op = "unregister" /\ e.fd = last.fd
    /\ \A e \in Events : e.op # "read"
    /\ \E k \in DOMAIN clients : clients[k].child = NoChild

(* ---- C15 ---- *)
\* C15: after every dispatcher step that met no failing call, no process
\* that has exited is still bound with its descriptor registered, and the
\* step made no read from such a process and sent no Data message from it;
\* in particular the shared process, once it has exited, is unregistered by
\* the next step.
C15_ExitedBindingsReclaimed ==
    StepDone =>
        \A p \in DOMAIN procs :
            procs[p].status = "exited" =>
               /\ procs[p].fd \notin registered
               /\ \A e \in Events : e.op = "read" => e.pid # p
               /\ \A i \in DataOut : out[i].pid # p

(* ---- C16 ---- *)
\* C16: in the exclusive and identity policies a dispatcher step makes at
\* most one read, of at most 2048 bytes, and never discards output that a
\* bound process has written and the service has not yet read: as long as
\* the client stays subscribed, a step that carries the readiness
\* notification of the binding's descriptor keeps the binding and reads on
\* from where the last read ended, also after the process has exited.
C16_OutputNeverDiscarded ==
    [][ policy # "shared" =>
          /\ Cardinality({i \in DOMAIN log' : log'[i].op = "read"}) <= 1
          /\ \A i \in DOMAIN out' :
                out'[i].kind = "Data" => out'[i].to - out'[i].from <= BufSize
          /\ \A k \in DOMAIN clients :
                ( /\ last'.hit = "none"
                  /\ last'.event = "readable" /\ last'.fd = clients[k].fd
                  /\ clients[k].child # NoChild
                  /\ procs[clients[k].child].wr > procs[clients[k].child].rd
                  /\ k \in DOMAIN clients'
                  /\ ~(last'.msg.kind = "Subscribe" /\ last'.msg.client_id = k) )
                => /\ clients'[k].child = clients[k].child
                   /\ procs'[clients[k].child].wr = procs[clients[k].child].wr
                   /\ procs'[clients[k].child].rd > procs[clients[k].child].rd
      ]_vars

(* ---- C17 ---- *)
\* C17: in the exclusive and identity policies no two bound entries hold the
\* same descriptor, and a dispatcher step sends at most one Data message: it
\* is tagged with the id of the entry whose descriptor is the notified one
\* and carries bytes read from the process bound to that entry, which was
\* spawned for that id.
C17_OneOwnerPerDescriptor ==
    policy # "shared" =>
        /\ \A k1, k2 \in DOMAIN clients :
              (k1 # k2 /\ clients[k1].child # NoChild /\ clients[k2].child # NoChild)
                 => clients[k1].fd # clients[k2].fd
        /\ Cardinality(DataOut) <= 1
        /\ \A i \in DataOut :
              /\ last.event = "readable"
              /\ out[i].client_id \in DOMAIN clients
              /\ clients[out[i].client_id].child = out[i].pid
              /\ clients[out[i].client_id].fd = last.fd
              /\ procs[out[i].pid].owner = out[i].client_id
              /\ \A e \in Events : e.op = "read" => e.pid = out[i].pid /\ e.fd = last.fd

C17_Witness ==
    /\ policy # "shared" /\ StepDone
    /\ DOMAIN clients = Ids
    /\ \A k \in Ids : clients[k].child # NoChild
                      /\ procs[clients[k].child].wr > procs[clients[k].child].rd
    /\ last.event = "readable" /\ last.fd = 4
    /\ \E i \in DataOut : out[i].to > out[i].from /\ clients[out[i].client_id].fd = 4

(* ---- C18 ---- *)
\* C18: in the identity and shared policies a Subscribe whose label (the
\* payload without its last byte) is not valid UTF-8 makes the handler return
\* the decoding error and changes nothing: the registry, with the bindings
\* and labels of the entries already present, the registered descriptors and
\* the processes are as before the message.
C18_BadLabelKeepsRegistry ==
    [][ ( /\ policy \in {"identity", "shared"}
          /\ last'.hit # "idle"
          /\ last'.msg.kind = "Subscribe"
          /\ Len(last'.msg.data) > 0
          /\ ~Utf8Valid(SubSeq(last'.msg.data, 1, Len(last'.msg.data) - 1)) )
        => /\ last'.hit = "from_utf8"
           /\ last'.mid.err
           /\ clients' = clients
           /\ registered' = registered
           /\ procs' = procs
           /\ orphans' = orphans
      ]_vars

C18_Witness ==
    /\ policy = "identity"
    /\ last.hit = "from_utf8"
    /\ last.msg.kind = "Subscribe" /\ last.msg.data = <<255, 0>>
    /\ last.msg.client_id \in DOMAIN clients
    /\ clients[last.msg.client_id].child # NoChild
    /\ clients[last.msg.client_id].user = <<195, 169>>
    /\ DOMAIN clients # Ids

(* ---- C19 ---- *)
\* C19: in the exclusive and identity policies, when the launch of the
\* process or the registration of its descriptor fails while a Data message
\* for an entry in NoProcess is handled, the handler returns the error, the
\* entry stays in NoProcess, no descriptor is registered, nothing is written,
\* and no process is left running without an owning entry.
C19_FailedStartLeavesNothing ==
    [][ ( /\ policy # "shared"
          /\ last'.hit \in {"spawn", "register"}
          /\ last'.msg.kind = "Data"
          /\ last'.msg.client_id \in DOMAIN clients
          /\ clients[last'.msg.client_id].child = NoChild )
        => /\ last'.mid.err
           /\ ~running'
           /\ clients' = clients
           /\ registered' = registered
           /\ \A i \in DOMAIN log' : log'[i].op # "write"
           /\ orphans' = orphans
           /\ procs' = procs
      ]_vars

(* ---- C20 ---- *)
\* C20: in the exclusive and identity policies a readable notification for a
\* descriptor that no bound entry holds when the notification is handled
\* makes no read and sends no Data message, and the readiness handling
\* changes nothing: the registry and the registered descriptors are as the
\* monitor left them, and a step with no message and nothing to reclaim
\* leaves the whole state as it was.
C20_StaleReadableIsNoOp ==
    [][ ( /\ policy # "shared"
          /\ last'.hit # "idle"
          /\ last'.event = "readable"
          /\ \A k \in DOMAIN clients' :
                ~(clients'[k].child # NoChild /\ clients'[k].fd = last'.fd) )
        => /\ \A i \in DOMAIN log' : log'[i].ph # "io"
           /\ \A i \in DOMAIN out' : out'[i].kind # "Data"
           /\ (\A i \in DOMAIN log' : log'[i].ph # "mon") =>
                 /\ clients' = last'.mid.clients
                 /\ registered' = last'.mid.registered
           /\ (last'.msg.kind = "None" /\ \A i \in DOMAIN log' : log'[i].ph # "mon") =>
                 /\ clients' = clients
                 /\ registered' = registered
                 /\ procs' = procs
                 /\ orphans' = orphans
                 /\ running'
      ]_vars

C20_Witness ==
    /\ policy # "shared" /\ StepDone
    /\ last.msg.kind = "None"
    /\ last.event = "readable" /\ last.fd \in registered
    /\ \A k \in DOMAIN clients : clients[k].fd # last.fd
    /\ \E k \in DOMAIN clients :
          /\ clients[k].child # NoChild
          /\ procs[clients[k].child].wr > procs[clients[k].child].rd
    /\ log = <<>> /\ out = <<>>

(* ---- C21 ---- *)
\* C21: in the identity and shared policies a Subscribe with an empty
\* payload (size 0) does not make the label length size - 1 underflow: the
\* handler does not panic, and message handling either leaves the registry
\* as it was or inserts an entry in NoProcess with the empty label for the
\* client id of the message.
C21_EmptyPayloadNoUnderflow ==
    [][ ( /\ policy \in {"identity", "shared"}
          /\ last'.hit # "idle"
          /\ last'.msg.kind = "Subscribe"
          /\ Len(last'.msg.data) = 0 )
        => /\ ~last'.panic
           /\ last'.hit # "panic"
           /\ \/ last'.mid.clients = clients
              \/ last'.mid.clients =
                    MapInsert(clients, last'.msg.client_id, NoProcess(<<>>))
      ]_vars

====
